---------------------------- MODULE Spec2Model ----------------------------
(***************************************************************************)
(* A model of visibility_engine.py: the moving walls (Wall.update,         *)
(* rotate_around), the scene's bounce policy (Scene.update) and the        *)
(* visibility engine (compute_visibility_polygon, cast_ray, angle_diff,    *)
(* ray_segment_intersection).                                              *)
(*                                                                         *)
(* Numbers.  The program computes in floats; the model computes in         *)
(* integers:                                                               *)
(*   - a coordinate is a whole number of pixels;                           *)
(*   - an angle is a whole number of AngleUnit-ths of a radian             *)
(*     (1e-5 rad), so that math.pi is PI = 314159 and eps = 1e-3 is 100;   *)
(*   - a cosine or sine is a whole number of TrigScale-ths (1e-4);         *)
(*   - a time step dt is a whole number of TimeScale-ths of a second;      *)
(*   - the ray parameters t and u of an intersection are exact fractions   *)
(*     (numerator, denominator), compared without rounding.                *)
(***************************************************************************)
EXTENDS Integers, Sequences, FiniteSets, TLC

VARIABLES
    walls,    \* Scene.walls, the list the engine shares: a sequence of Wall records
    result,   \* what the last compute_visibility_polygon call returned, or NoResult
    snap,     \* history: one earlier call (its arguments, the segments, its result)
    before,   \* history: the walls as they were before the last operation
    sumDt,    \* history: the sum of the dt of all updates so far
    lastDt,   \* history: the dt of the last update
    ticks,    \* history: the number of updates so far
    created,  \* history: the walls as their constructors left them
    last      \* history: the last operation, "init", "update" or "compute"

vars == <<walls, result, snap, before, sumDt, lastDt, ticks, created, last>>

-----------------------------------------------------------------------------
(* Units of the integer arithmetic.                                         *)

AngleUnit == 100000      \* angle units per radian
TrigScale == 10000       \* the value 1.0 of a cosine or a sine
TimeScale == 10          \* dt units per second
PI == 314159             \* math.pi
TwoPI == 2 * PI
HalfPI == 157080         \* math.pi / 2, rounded to the angle unit

\* An optional value is a sequence of at most one element.
None == <<>>
Some(v) == <<v>>
The(o) == o[1]
NoResult == <<>>

Abs(n) == IF n < 0 THEN -n ELSE n
Sign(n) == IF n < 0 THEN -1 ELSE IF n > 0 THEN 1 ELSE 0

\* a / b rounded to the nearest integer (b > 0), halves upward.
DivRound(a, b) == (2 * a + b) \div (2 * b)

-----------------------------------------------------------------------------
(* Vec2.                                                                    *)

Vec2(x, y) == [x |-> x, y |-> y]
Vec2_add(a, b) == Vec2(a.x + b.x, a.y + b.y)
Vec2_sub(a, b) == Vec2(a.x - b.x, a.y - b.y)
Vec2_cross(a, b) == a.x * b.y - a.y * b.x

\* math.sin(a) for -HalfPI <= a <= HalfPI, by its Taylor polynomial up to a^9
\* in Horner form; the argument is first brought to 1e-4 rad.
SinSeries(a) ==
    LET x  == DivRound(a, AngleUnit \div TrigScale)
        x2 == DivRound(x * x, TrigScale)
        h4 == TrigScale - DivRound(x2, 72)
        h3 == TrigScale - DivRound(x2 * h4, 42 * TrigScale)
        h2 == TrigScale - DivRound(x2 * h3, 20 * TrigScale)
        h1 == TrigScale - DivRound(x2 * h2, 6 * TrigScale)
    IN  DivRound(x * h1, TrigScale)

\* An angle reduced into (-PI, PI] by whole turns of TwoPI.
Reduce(a) ==
    LET r == (a + PI) % TwoPI
    IN  IF r = 0 THEN PI ELSE r - PI

\* math.sin and math.cos of any angle.
Sin(a) ==
    LET r == Reduce(a)
    IN  IF r > HalfPI THEN SinSeries(PI - r)
        ELSE IF r < -HalfPI THEN SinSeries(-PI - r)
        ELSE SinSeries(r)

Cos(a) == Sin(a + HalfPI)

\* Vec2.from_angle: the unit vector, in TrigScale-ths.
Vec2_from_angle(theta) == Vec2(Cos(theta), Sin(theta))

-----------------------------------------------------------------------------
(* Wall.                                                                    *)

Segment(p1, p2) == [p1 |-> p1, p2 |-> p2]

\* Wall.__init__
Wall(p1, p2, dynamic, rotation_center, angular_speed, velocity) ==
    [ base_p1         |-> Vec2(p1.x, p1.y),
      base_p2         |-> Vec2(p2.x, p2.y),
      segment         |-> Segment(Vec2(p1.x, p1.y), Vec2(p2.x, p2.y)),
      dynamic         |-> dynamic,
      rotation_center |-> rotation_center,
      angular_speed   |-> angular_speed,
      velocity        |-> IF velocity = None THEN Vec2(0, 0) ELSE The(velocity),
      angle           |-> 0 ]

rotate_around(point, center, angle) ==
    LET translated == Vec2_sub(point, center)
        c == Cos(angle)
        s == Sin(angle)
        rotated == Vec2(DivRound(translated.x * c - translated.y * s, TrigScale),
                        DivRound(translated.x * s + translated.y * c, TrigScale))
    IN  Vec2_add(center, rotated)

\* "rotation is active": the condition of Wall.update's first branch.
RotationActive(w) == w.rotation_center # None /\ w.angular_speed # 0

\* self.velocity * dt, dt in TimeScale-ths of a second.
Displacement(velocity, dt) ==
    Vec2(DivRound(velocity.x * dt, TimeScale), DivRound(velocity.y * dt, TimeScale))

\* Mutant: the rotation turns the current segment by this tick's step instead
\* of turning the base points by the accumulated angle.
Wall_rotate_incremental(w, dt) ==
    IF RotationActive(w)
    THEN LET step == DivRound(w.angular_speed * dt, TimeScale)
         IN  [w EXCEPT !.angle = w.angle + step,
                       !.segment = Segment(rotate_around(w.segment.p1, The(w.rotation_center), step),
                                           rotate_around(w.segment.p2, The(w.rotation_center), step))]
    ELSE w

\* Mutant: the accumulated angle is wrapped into (-PI, PI].
Wall_rotate_wrapped(w, dt) ==
    IF RotationActive(w)
    THEN LET a == Reduce(w.angle + DivRound(w.angular_speed * dt, TimeScale))
         IN  [w EXCEPT !.angle = a,
                       !.segment = Segment(rotate_around(w.base_p1, The(w.rotation_center), a),
                                           rotate_around(w.base_p2, The(w.rotation_center), a))]
    ELSE w

\* The rotation branch of Wall.update.
Wall_rotate(w, dt) ==
    IF RotationActive(w)
    THEN LET a == w.angle + DivRound(w.angular_speed * dt, TimeScale)
         IN  [w EXCEPT !.angle = a,
                       !.segment = Segment(rotate_around(w.base_p1, The(w.rotation_center), a),
                                           rotate_around(w.base_p2, The(w.rotation_center), a))]
    ELSE w

\* The translation branch of Wall.update.
Wall_translate(w, dt) ==
    IF w.velocity.x # 0 \/ w.velocity.y # 0
    THEN LET dp == Displacement(w.velocity, dt)
         IN  [w EXCEPT !.segment = Segment(Vec2_add(w.segment.p1, dp),
                                           Vec2_add(w.segment.p2, dp))]
    ELSE w

\* Mutant: Wall.update without its "if not self.dynamic: return".
Wall_update_unguarded(w, dt) == Wall_translate(Wall_rotate(w, dt), dt)

\* Wall.update
Wall_update(w, dt) ==
    IF ~w.dynamic THEN w ELSE Wall_translate(Wall_rotate(w, dt), dt)

-----------------------------------------------------------------------------
(* Scene.update: every wall is updated, then a moving wall's velocity is    *)
(* flipped once for each endpoint found outside the bounce rectangle.       *)

BounceMinX == 80
BounceMaxX == 720
BounceMinY == 80
BounceMaxY == 520

\* The body of "for p in [seg.p1, seg.p2]" for one endpoint p.
Bounce_point(velocity, p) ==
    Vec2(IF p.x < BounceMinX \/ p.x > BounceMaxX THEN -velocity.x ELSE velocity.x,
         IF p.y < BounceMinY \/ p.y > BounceMaxY THEN -velocity.y ELSE velocity.y)

\* wall.velocity.length() > 0
Moving(w) == w.velocity.x * w.velocity.x + w.velocity.y * w.velocity.y > 0

\* One iteration of Scene.update's loop over the walls.
Scene_update_wall(w, dt) ==
    LET u == Wall_update(w, dt)
    IN  IF u.dynamic /\ Moving(u)
        THEN [u EXCEPT !.velocity =
                 Bounce_point(Bounce_point(u.velocity, u.segment.p1), u.segment.p2)]
        ELSE u

Scene_update(ws, dt) == [i \in 1..Len(ws) |-> Scene_update_wall(ws[i], dt)]

-----------------------------------------------------------------------------
(* Angles.                                                                  *)

Eps == 100               \* eps = 1e-3
Steps360 == 64           \* steps of the 360-degree mode
StepsFov == 32           \* steps of the FOV mode
MaxDist == 1000          \* cast_ray's max_dist

\* Bisection for math.atan2 in the first quadrant (y > 0, x > 0): the angle
\* lo..hi whose direction is parallel to (x, y).
RECURSIVE AtanSearch(_, _, _, _)
AtanSearch(y, x, lo, hi) ==
    IF hi - lo <= 1
    THEN lo
    ELSE LET mid == (lo + hi) \div 2
         IN  IF Cos(mid) * y - Sin(mid) * x >= 0
             THEN AtanSearch(y, x, mid, hi)
             ELSE AtanSearch(y, x, lo, mid)

\* math.atan2(y, x), in [-PI, PI]; y = 0 is the float +0.0.
Atan2(y, x) ==
    IF y = 0 THEN (IF x >= 0 THEN 0 ELSE PI)
    ELSE IF x = 0 THEN (IF y > 0 THEN HalfPI ELSE -HalfPI)
    ELSE LET a == AtanSearch(Abs(y), Abs(x), 0, HalfPI)
         IN  IF x > 0 THEN (IF y > 0 THEN a ELSE -a)
             ELSE (IF y > 0 THEN PI - a ELSE a - PI)

\* "Normalize to [-pi, pi]": math.atan2(math.sin(a), math.cos(a)).  An odd
\* multiple of pi keeps its sign, as sin(-math.pi) < 0 < sin(math.pi) makes
\* atan2 return -pi for the one and pi for the other.
Normalize(a) ==
    LET r == Reduce(a)
    IN  IF r = PI /\ a < 0 THEN -PI ELSE r

\* round(a, 4): the angle in 1e-4 rad, the nearest, a half to the even one.
Round4(a) ==
    LET f == AngleUnit \div TrigScale
        q == a \div f
        r == a % f
    IN  IF 2 * r > f \/ (2 * r = f /\ q % 2 = 1) THEN q + 1 ELSE q

RECURSIVE angle_diff_up(_)
angle_diff_up(diff) == IF diff <= -PI THEN angle_diff_up(diff + TwoPI) ELSE diff

RECURSIVE angle_diff_down(_)
angle_diff_down(diff) == IF diff > PI THEN angle_diff_down(diff - TwoPI) ELSE diff

\* angle_diff(a, b): the two while loops.
angle_diff(a, b) == angle_diff_down(angle_diff_up(a - b))

-----------------------------------------------------------------------------
(* Ray against segment.  The direction of a ray is TrigScale long, so the    *)
(* parameter t of the model is the code's t divided by TrigScale; t and u    *)
(* are fractions n/d with d > 0.                                             *)

Frac(n, d) == IF d < 0 THEN [n |-> -n, d |-> -d] ELSE [n |-> n, d |-> d]

\* The sign of a/b - c/d for a, c >= 0 and b, d > 0, by the continued
\* fractions of the two (no product is formed).
RECURSIVE FracCmp(_, _, _, _)
FracCmp(a, b, c, d) ==
    LET qa == a \div b
        qc == c \div d
        ra == a % b
        rc == c % d
    IN  IF qa # qc THEN (IF qa < qc THEN -1 ELSE 1)
        ELSE IF ra = 0 \/ rc = 0
             THEN (IF ra = rc THEN 0 ELSE IF ra = 0 THEN -1 ELSE 1)
             ELSE FracCmp(d, rc, b, ra)

FracLess(s, t) == FracCmp(s.n, s.d, t.n, t.d) < 0

\* a * n / d rounded to the nearest integer, for 0 <= a <= TrigScale,
\* n >= 0, d > 0, by long division in two steps of 100.
MulDiv(a, n, d) ==
    LET X == (a \div 100) * n
        Y == (X % d) * 100 + (a % 100) * n
        r == Y % d
    IN  (X \div d) * 100 + (Y \div d) + (IF r >= d - r THEN 1 ELSE 0)

\* direction * t, to the pixel.
Vec2_mul(direction, t) ==
    Vec2(Sign(direction.x) * MulDiv(Abs(direction.x), t.n, t.d),
         Sign(direction.y) * MulDiv(Abs(direction.y), t.n, t.d))

ray_segment_intersection(origin, direction, a, b) ==
    LET v1 == Vec2_sub(origin, a)
        v2 == Vec2_sub(b, a)
        denom == Vec2_cross(direction, v2)
    IN  IF denom = 0     \* abs(denom) < 1e-6
        THEN None
        ELSE LET t == Frac(Vec2_cross(v2, v1), denom)
                 u == Frac(Vec2_cross(direction, v1), denom)
             IN  IF t.n < 0 THEN None ELSE Some([t |-> t, u |-> u])

\* Mutant: the segment where the wall's velocity will have taken it a second
\* on (the call reads a field other than the current segment).
get_segment_ahead(w) ==
    Segment(Vec2_add(w.segment.p1, w.velocity), Vec2_add(w.segment.p2, w.velocity))

\* Wall.get_segment
get_segment(w) == w.segment

\* Mutant: the test without "t < closest_t" (the last wall hit wins).
Closer_any(t, u, closest_t) == 0 <= t.n /\ 0 <= u.n /\ u.n <= u.d

\* cast_ray's test "0 <= t < closest_t and 0 <= u <= 1".
Closer(t, u, closest_t) ==
    /\ 0 <= t.n /\ FracLess(t, closest_t)
    /\ 0 <= u.n /\ u.n <= u.d

\* Mutant: the hit point without the ray's origin.
HitPoint_relative(origin, direction, t) == Vec2_mul(direction, t)

\* closest_point = origin + direction * t
HitPoint(origin, direction, t) == Vec2_add(origin, Vec2_mul(direction, t))

NoHit == [closest_t |-> Frac(MaxDist, TrigScale), closest_point |-> None, hit_wall |-> None]

\* cast_ray's loop from wall i on; best holds closest_t, closest_point, hit_wall.
RECURSIVE cast_ray_from(_, _, _, _, _)
cast_ray_from(ws, origin, direction, i, best) ==
    IF i > Len(ws)
    THEN best
    ELSE LET seg == get_segment(ws[i])
             res == ray_segment_intersection(origin, direction, seg.p1, seg.p2)
         IN  IF res = None
             THEN cast_ray_from(ws, origin, direction, i + 1, best)
             ELSE IF Closer(The(res).t, The(res).u, best.closest_t)
                  THEN cast_ray_from(ws, origin, direction, i + 1,
                         [closest_t     |-> The(res).t,
                          closest_point |-> Some(HitPoint(origin, direction, The(res).t)),
                          hit_wall      |-> Some(i)])
                  ELSE cast_ray_from(ws, origin, direction, i + 1, best)

\* cast_ray: (closest_point, hit_wall); a wall is its place in the list.
cast_ray(ws, origin, angle) ==
    cast_ray_from(ws, origin, Vec2_from_angle(angle), 1, NoHit)

-----------------------------------------------------------------------------
(* compute_visibility_polygon.                                              *)

Call(origin, facing_angle, fov_angle, full_360) ==
    [origin |-> origin, facing_angle |-> facing_angle,
     fov_angle |-> fov_angle, full_360 |-> full_360]

\* The three candidate angles of every wall endpoint, from wall i on.
RECURSIVE EndpointAngles(_, _, _)
EndpointAngles(ws, origin, i) ==
    IF i > Len(ws)
    THEN <<>>
    ELSE LET seg == get_segment(ws[i])
             r1 == Vec2_sub(seg.p1, origin)
             r2 == Vec2_sub(seg.p2, origin)
             a1 == Atan2(r1.y, r1.x)
             a2 == Atan2(r2.y, r2.x)
         IN  <<a1 - Eps, a1, a1 + Eps, a2 - Eps, a2, a2 + Eps>>
               \o EndpointAngles(ws, origin, i + 1)

\* The samples of the mode: 64 over the circle, or 33 over the field of view.
BulkAngles(c) ==
    IF c.full_360
    THEN [i \in 1..Steps360 |-> -PI + DivRound(TwoPI * (i - 1), Steps360)]
    ELSE [i \in 1..(StepsFov + 1) |->
            c.facing_angle + DivRound(c.fov_angle * (2 * (i - 1) - StepsFov), 2 * StepsFov)]

CandidateAngles(ws, c) == EndpointAngles(ws, c.origin, 1) \o BulkAngles(c)

\* Mutant: no field-of-view filter.
InFov_all(a, c) == TRUE

\* The filter of the FOV mode: abs(diff) > fov_angle / 2.0 drops the angle.
InFov(a, c) ==
    c.full_360 \/ 2 * Abs(angle_diff(a, c.facing_angle)) <= c.fov_angle

\* The loop "for a in angles": each angle normalised, with its rounded key.
Keyed(angles) ==
    <<>> \o [i \in 1..Len(angles) |->
               LET a == Normalize(angles[i]) IN [i |-> i, a |-> a, key |-> Round4(a)]]

\* unique_angles: an angle is kept when no earlier one has its key ("seen")
\* and the field of view holds it.
UniqueAngles(angles, c) ==
    LET keyed == Keyed(angles)
        kept == SelectSeq(keyed, LAMBDA e :
                    /\ \A j \in 1..(e.i - 1) : keyed[j].key # e.key
                    /\ InFov(e.a, c))
    IN  [k \in 1..Len(kept) |-> kept[k].a]

\* unique_angles.sort()
SortAngles(angles) == SortSeq(angles, LAMBDA a, b : a < b)

\* Mutant: the FOV mode ordered by absolute angle, like the 360-degree mode.
OrderAngles_absolute(sorted, c) == sorted

\* ordered_angles: in the FOV mode the stable sort by angle_diff(a, facing).
OrderAngles(sorted, c) ==
    IF c.full_360
    THEN sorted
    ELSE LET angle_pairs == <<>> \o [k \in 1..Len(sorted) |->
                                <<angle_diff(sorted[k], c.facing_angle), k, sorted[k]>>]
             ordered == SortSeq(angle_pairs,
                          LAMBDA p, q : p[1] < q[1] \/ (p[1] = q[1] /\ p[2] < q[2]))
         IN  [k \in 1..Len(ordered) |-> ordered[k][3]]

\* Mutant: a ray that hits nothing contributes the point at max_dist.
RayPoint_placeholder(hit, origin, a) ==
    IF hit.closest_point = None
    THEN <<[a |-> a, p |-> Vec2_add(origin, Vec2_mul(Vec2_from_angle(a), Frac(MaxDist, TrigScale))),
            w |-> None]>>
    ELSE <<[a |-> a, p |-> The(hit.closest_point), w |-> hit.hit_wall]>>

\* "if hit_point is not None: points.append((a, hit_point))"
RayPoint(hit, origin, a) ==
    IF hit.closest_point = None
    THEN <<>>
    ELSE <<[a |-> a, p |-> The(hit.closest_point), w |-> hit.hit_wall]>>

\* The loop "for a in ordered_angles": the (a, hit_point) pairs, each with its wall.
CastAll(ws, origin, ordered_angles) ==
    LET cast == <<>> \o [k \in 1..Len(ordered_angles) |->
                   RayPoint(cast_ray(ws, origin, ordered_angles[k]), origin, ordered_angles[k])]
        some == SelectSeq(cast, LAMBDA r : r # <<>>)
    IN  <<>> \o [k \in 1..Len(some) |-> some[k][1]]

\* compute_visibility_polygon: points and hit_walls are what it returns;
\* rays and ray_walls (the angle and the wall of each returned point) and
\* ordered_angles are its locals.
\* The first loop over unique_angles is left out: its points and hit_walls
\* are overwritten before they are read.
compute_visibility_polygon(ws, c) ==
    LET unique_angles == <<>> \o UniqueAngles(CandidateAngles(ws, c), c)
        ordered_angles == <<>> \o OrderAngles(SortAngles(unique_angles), c)
        hits == CastAll(ws, c.origin, ordered_angles)
    IN  [ call           |-> c,
          ordered_angles |-> ordered_angles,
          rays           |-> [k \in 1..Len(hits) |-> hits[k].a],
          ray_walls      |-> [k \in 1..Len(hits) |-> hits[k].w],
          points         |-> [k \in 1..Len(hits) |-> hits[k].p],
          hit_walls      |-> {The(hits[k].w) : k \in {j \in 1..Len(hits) : hits[j].w # None}} ]

-----------------------------------------------------------------------------
(* Inputs and bounds.                                                       *)

MaxTicks == 3            \* Wall.update calls on one wall
MaxFrames == 5           \* Scene.update calls on one scene
DtValues == {1, 10, 20}  \* 0.1 s, 1 s, 2 s

Pivot == Vec2(400, 300)

\* Constructor arguments of the walls of WallSpec.
WallArgs ==
    { Wall(Vec2(350, 300), Vec2(450, 300), d, c, a, v) :
        d \in BOOLEAN, c \in {None, Some(Pivot)},
        a \in {0, 50000, -50000, HalfPI},
        v \in {None, Some(Vec2(50, 0)), Some(Vec2(-30, 20))} }

\* The walls Scene.update bounces: the default scene's translating wall
\* (create_default_scene) and two more walls that only translate.
BouncingWalls ==
    { Wall(Vec2(300, 250), Vec2(350, 250), TRUE, None, 0, Some(Vec2(50, 0))),
      Wall(Vec2(600, 200), Vec2(600, 300), TRUE, None, 0, Some(Vec2(50, 0))),
      Wall(Vec2(500, 400), Vec2(560, 440), TRUE, None, 0, Some(Vec2(30, 40))) }

MaxSteps == 1            \* Scene.update calls before a visibility computation

\* The four walls of the closed room (the outer walls of create_default_scene).
ClosedRoom ==
    << Wall(Vec2(50, 50), Vec2(750, 50), FALSE, None, 0, None),
       Wall(Vec2(750, 50), Vec2(750, 550), FALSE, None, 0, None),
       Wall(Vec2(750, 550), Vec2(50, 550), FALSE, None, 0, None),
       Wall(Vec2(50, 550), Vec2(50, 50), FALSE, None, 0, None) >>

\* Scene.create_default_scene
DefaultScene ==
    ClosedRoom \o
    << Wall(Vec2(200, 150), Vec2(600, 150), FALSE, None, 0, None),
       Wall(Vec2(200, 450), Vec2(600, 450), FALSE, None, 0, None),
       Wall(Vec2(250, 200), Vec2(250, 400), FALSE, None, 0, None),
       Wall(Vec2(550, 200), Vec2(550, 400), FALSE, None, 0, None),
       Wall(Vec2(350, 300), Vec2(450, 300), TRUE, Some(Pivot), 50000, None),
       Wall(Vec2(300, 250), Vec2(350, 250), TRUE, None, 0, Some(Vec2(50, 0))) >>

\* Free-standing walls: a long wall, a short wall behind it (as seen from the
\* middle of the screen) and a rotating wall.
OpenScene ==
    << Wall(Vec2(200, 150), Vec2(600, 150), FALSE, None, 0, None),
       Wall(Vec2(380, 120), Vec2(420, 120), FALSE, None, 0, None),
       Wall(Vec2(150, 350), Vec2(250, 350), TRUE, Some(Vec2(200, 350)), 50000, None) >>

Scenes == {<<>>, ClosedRoom, OpenScene, DefaultScene}

\* The arguments of compute_visibility_polygon.
Origins == {Vec2(400, 300), Vec2(325, 100)}
FacingAngles == {0, 300000, -700000}
FovAngles == {0, HalfPI, 700000}
Calls ==
    { Call(o, f, v, m) : o \in Origins, f \in FacingAngles, v \in FovAngles, m \in BOOLEAN }

Start(ws) ==
    /\ walls = ws
    /\ created = ws
    /\ before = ws
    /\ result = NoResult
    /\ snap = NoResult
    /\ sumDt = 0
    /\ lastDt = 0
    /\ ticks = 0
    /\ last = "init"

Tick(ws, dt) ==
    /\ walls' = ws
    /\ before' = walls
    /\ sumDt' = sumDt + dt
    /\ lastDt' = dt
    /\ ticks' = ticks + 1
    /\ last' = "update"
    /\ result' = NoResult
    /\ UNCHANGED <<snap, created>>

-----------------------------------------------------------------------------
(* WallSpec: one wall, any constructor arguments, Wall.update(dt) calls.    *)

WallInit == \E w \in WallArgs : Start(<<w>>)

WallUpdate(dt) ==
    /\ ticks < MaxTicks
    /\ Tick([i \in 1..Len(walls) |-> Wall_update(walls[i], dt)], dt)

WallNext == \E dt \in DtValues : WallUpdate(dt)

WallSpec == WallInit /\ [][WallNext]_vars

-----------------------------------------------------------------------------
(* SceneSpec: one translating wall, Scene.update(dt) calls.                 *)

SceneInit == \E w \in BouncingWalls : Start(<<w>>)

SceneUpdate(dt) ==
    /\ ticks < MaxFrames
    /\ Tick(Scene_update(walls, dt), dt)

SceneNext == \E dt \in DtValues : SceneUpdate(dt)

SceneSpec == SceneInit /\ [][SceneNext]_vars

-----------------------------------------------------------------------------
(* Spec: a scene, Scene.update(dt) calls, and one compute_visibility_polygon *)
(* call per frame (Game.update, then Game.draw).                            *)

Segments(ws) == [i \in 1..Len(ws) |-> get_segment(ws[i])]

Init == \E ws \in Scenes : Start(ws)

Update(dt) ==
    /\ ticks < MaxSteps
    /\ Tick(Scene_update(walls, dt), dt)

\* The call leaves the walls as they are; its return value is kept in result.
Computed(c) ==
    /\ result = NoResult
    /\ result' = Some(compute_visibility_polygon(walls, c))
    /\ walls' = walls
    /\ before' = walls
    /\ last' = "compute"
    /\ UNCHANGED <<sumDt, lastDt, ticks, created>>

Compute(c) == Computed(c) /\ UNCHANGED snap

Next ==
    \/ \E dt \in DtValues : Update(dt)
    \/ \E c \in Calls : Compute(c)

Spec == Init /\ [][Next]_vars

-----------------------------------------------------------------------------
(* DetSpec: Scene.update(dt) and compute_visibility_polygon calls in any    *)
(* order on a scene whose moving walls come back to where they were; snap   *)
(* remembers one earlier call, its arguments and the walls it saw.          *)

MaxDetSteps == 3         \* Scene.update calls between the compared calls

\* A static wall, a translating wall that bounces off x = 720 and a wall that
\* makes half a turn a second.
DetScene ==
    << Wall(Vec2(200, 150), Vec2(600, 150), FALSE, None, 0, None),
       Wall(Vec2(650, 250), Vec2(700, 250), TRUE, None, 0, Some(Vec2(50, 0))),
       Wall(Vec2(350, 300), Vec2(450, 300), TRUE, Some(Pivot), PI, None) >>

DetDts == {10, 20}       \* 1 s, 2 s

DetCalls ==
    { Call(Vec2(400, 400), 0, HalfPI, m) : m \in BOOLEAN }

DetInit == Start(DetScene)

DetUpdate(dt) ==
    /\ ticks < MaxDetSteps
    /\ Tick(Scene_update(walls, dt), dt)

\* A call, whatever was called before it.
Called(c) ==
    /\ result' = Some(compute_visibility_polygon(walls, c))
    /\ walls' = walls
    /\ before' = walls
    /\ last' = "compute"
    /\ UNCHANGED <<sumDt, lastDt, ticks, created>>

\* What a call was given, what it saw and what it returned.
Remembered(c, r) ==
    [ call      |-> c,
      walls     |-> walls,
      segments  |-> [i \in 1..Len(walls) |-> walls[i].segment],
      ticks     |-> ticks,
      points    |-> r.points,
      hit_walls |-> r.hit_walls ]

\* A call; snap keeps it or keeps the call it held.
DetCompute(c) ==
    /\ Called(c)
    /\ \E remember \in BOOLEAN :
         snap' = IF remember THEN Some(Remembered(c, The(result'))) ELSE snap

DetNext ==
    \/ \E dt \in DetDts : DetUpdate(dt)
    \/ \E c \in DetCalls : DetCompute(c)

DetSpec == DetInit /\ [][DetNext]_vars

-----------------------------------------------------------------------------
(* Claims about the walls.                                                  *)

Walls == 1..Len(walls)

\* C6: a wall created with dynamic = false is left as its constructor made it
\* by every update: segment, angle, velocity and base points.
C6_StaticNeverMoves ==
    \A i \in Walls : ~created[i].dynamic => walls[i] = created[i]

C6_Witness ==
    /\ ticks >= 2
    /\ \E i \in Walls :
         /\ ~walls[i].dynamic
         /\ RotationActive(walls[i])
         /\ Moving(walls[i])

\* C7: after an update of a dynamic wall, if rotation is active each endpoint
\* is the base endpoint rotated about the pivot by the accumulated angle plus
\* this tick's velocity * dt (nothing of earlier ticks' translation is left);
\* if rotation is not active each endpoint is the constructor's endpoint plus
\* velocity * (the sum of all dt).  The base points never change.
C7_RotationAbsoluteTranslationIncremental ==
    \A i \in Walls :
      LET w == walls[i]
          c == created[i]
          dp == Displacement(w.velocity, lastDt)
          total == Displacement(w.velocity, sumDt)
      IN  (last = "update" /\ w.dynamic) =>
            /\ w.base_p1 = c.base_p1 /\ w.base_p2 = c.base_p2
            /\ RotationActive(w) =>
                 /\ w.segment.p1 =
                      Vec2_add(rotate_around(c.base_p1, The(w.rotation_center), w.angle), dp)
                 /\ w.segment.p2 =
                      Vec2_add(rotate_around(c.base_p2, The(w.rotation_center), w.angle), dp)
            /\ ~RotationActive(w) =>
                 /\ w.segment.p1 = Vec2_add(c.segment.p1, total)
                 /\ w.segment.p2 = Vec2_add(c.segment.p2, total)

C7_Witness ==
    /\ ticks >= 2
    /\ \E i \in Walls :
         /\ walls[i].dynamic /\ RotationActive(walls[i]) /\ Moving(walls[i])
         /\ before[i].segment # created[i].segment

C7_WitnessTranslation ==
    /\ ticks >= 2
    /\ \E i \in Walls :
         walls[i].dynamic /\ ~RotationActive(walls[i]) /\ Moving(walls[i])

\* The accumulated angle is angular_speed * (the sum of all dt) while rotation
\* is active, and 0 otherwise.
AngleIsSpeedTimesTime(i) ==
    LET w == walls[i]
    IN  IF w.dynamic /\ RotationActive(w)
        THEN w.angle = DivRound(w.angular_speed * sumDt, TimeScale)
        ELSE w.angle = 0

\* C8 as the claim states it: ... and the angle is never smaller than it was
\* after an earlier tick, whatever the sign of angular_speed.
C8_AngleNeverDecreases ==
    \A i \in Walls : AngleIsSpeedTimesTime(i) /\ walls[i].angle >= before[i].angle

\* C8, amended: the accumulated angle is angular_speed * (the sum of all dt),
\* never wrapped or reset; it never decreases when angular_speed > 0 and never
\* increases when angular_speed < 0; it stays 0 when rotation is not active.
C8_AngleAccumulates ==
    \A i \in Walls :
      /\ AngleIsSpeedTimesTime(i)
      /\ walls[i].angular_speed > 0 => walls[i].angle >= before[i].angle
      /\ walls[i].angular_speed < 0 => walls[i].angle <= before[i].angle

C8_Witness ==
    /\ ticks >= 2
    /\ \E i \in Walls :
         /\ walls[i].dynamic /\ RotationActive(walls[i])
         /\ walls[i].angular_speed < 0
         /\ walls[i].angle < before[i].angle
         /\ before[i].angle < 0

\* C10 as the claim states it: at the end of a Scene.update that leaves an
\* endpoint of a translating wall outside the bounce rectangle, the wall's
\* velocity on that axis points back toward the rectangle.
C10_BounceHeadsBack ==
    \A i \in Walls :
      LET w == walls[i]
          Ends == {w.segment.p1, w.segment.p2}
      IN  (last = "update" /\ w.dynamic /\ Moving(w) /\ ~RotationActive(w)) =>
            \A p \in Ends :
              /\ p.x > BounceMaxX => w.velocity.x <= 0
              /\ p.x < BounceMinX => w.velocity.x >= 0
              /\ p.y > BounceMaxY => w.velocity.y <= 0
              /\ p.y < BounceMinY => w.velocity.y >= 0

-----------------------------------------------------------------------------
(* Claims about compute_visibility_polygon.  They are stated over the last  *)
(* call's return value and the walls, which no update has moved since.      *)

Returned == result # NoResult
R == The(result)

\* What the ray at angle a from origin meets on wall i: None, or t and u.
Meets(origin, a, i) ==
    ray_segment_intersection(origin, Vec2_from_angle(a),
                             walls[i].segment.p1, walls[i].segment.p2)

\* The ray intersects wall i with t >= 0, u in [0, 1] and t < max_dist.
Struck(origin, a, i) ==
    LET m == Meets(origin, a, i)
    IN  /\ m # None
        /\ The(m).t.n >= 0
        /\ The(m).u.n >= 0 /\ The(m).u.n <= The(m).u.d
        /\ FracLess(The(m).t, Frac(MaxDist, TrigScale))

\* Wall i is struck by the ray and no struck wall has a smaller t.
Nearest(origin, a, i) ==
    /\ Struck(origin, a, i)
    /\ \A j \in Walls :
         Struck(origin, a, j) => ~FracLess(The(Meets(origin, a, j)).t, The(Meets(origin, a, i)).t)

\* C1: every wall of the returned hit set is, for at least one angle cast in
\* the call, the struck wall of smallest t (the first disjunct looks at the
\* rays that recorded the wall, the second at every ray cast).
C1_HitSetSound ==
    Returned =>
      \A w \in R.hit_walls :
        \/ \E k \in 1..Len(R.rays) :
             R.ray_walls[k] = Some(w) /\ Nearest(R.call.origin, R.rays[k], w)
        \/ \E k \in 1..Len(R.ordered_angles) :
             Nearest(R.call.origin, R.ordered_angles[k], w)

\* A call that struck a wall which is in no ray the nearest one: the hit set
\* has other walls and leaves this one out.
C1_Witness ==
    /\ Returned
    /\ Cardinality(R.hit_walls) >= 2
    /\ \E w \in Walls \ R.hit_walls :
         \E k \in 1..Len(R.ordered_angles) : Struck(R.call.origin, R.ordered_angles[k], w)

\* C2: in the FOV mode every returned point comes from a ray whose angle is
\* within fov_angle / 2 of the facing angle, measured by angle_diff.
C2_FovContainment ==
    (Returned /\ ~R.call.full_360) =>
      \A k \in 1..Len(R.rays) :
        2 * Abs(angle_diff(R.rays[k], R.call.facing_angle)) <= R.call.fov_angle

\* A FOV call facing beyond -pi that returned points while a wall endpoint
\* outside the field of view had a bracketing angle whose ray strikes a wall.
C2_Witness ==
    /\ Returned /\ ~R.call.full_360
    /\ R.call.facing_angle < -PI
    /\ Len(R.points) >= 2
    /\ LET ends == EndpointAngles(walls, R.call.origin, 1)
       IN  \E k \in 1..Len(ends) :
             /\ 2 * Abs(angle_diff(Normalize(ends[k]), R.call.facing_angle)) > R.call.fov_angle
             /\ \E i \in Walls : Struck(R.call.origin, Normalize(ends[k]), i)

\* C3: the angles of consecutive returned points ascend: by the normalised
\* angle in the 360-degree mode, by angle_diff(angle, facing) in the FOV mode.
C3_OutputOrdered ==
    Returned =>
      \A k \in 1..(Len(R.rays) - 1) :
        IF R.call.full_360
        THEN R.rays[k] <= R.rays[k + 1]
        ELSE angle_diff(R.rays[k], R.call.facing_angle)
               <= angle_diff(R.rays[k + 1], R.call.facing_angle)

\* A FOV call whose fan straddles the wrap: a returned ray of positive angle
\* is followed by one of negative angle.
C3_Witness ==
    /\ Returned /\ ~R.call.full_360
    /\ \E k \in 1..(Len(R.rays) - 1) : R.rays[k] > 0 /\ R.rays[k + 1] < 0

\* The number of distinct candidate angles of the call: the rounded keys of
\* the normalised candidates.
DistinctCandidates ==
    LET angles == CandidateAngles(walls, R.call)
    IN  Cardinality({Round4(Normalize(angles[k])) : k \in 1..Len(angles)})

\* C9: the call returns one point for each ordered candidate angle whose ray
\* strikes a wall and none for the others, so no more points than distinct
\* candidate angles; with no wall it returns no point and an empty hit set.
C9_MissesYieldNothing ==
    Returned =>
      /\ R.rays = SelectSeq(R.ordered_angles,
                            LAMBDA a : \E i \in Walls : Struck(R.call.origin, a, i))
      /\ Len(R.points) = Len(R.rays)
      /\ Len(R.points) <= DistinctCandidates
      /\ Len(walls) = 0 => (R.points = <<>> /\ R.hit_walls = {})

\* A partial result: some rays struck a wall and some did not.
C9_Witness ==
    /\ Returned
    /\ Len(R.points) > 0
    /\ Len(R.points) < Len(R.ordered_angles)

\* With no wall and a field of view of 0 the call returns nothing.
C9_WitnessEmpty ==
    /\ Returned /\ Len(walls) = 0
    /\ ~R.call.full_360 /\ R.call.fov_angle = 0
    /\ R.points = <<>> /\ R.hit_walls = {}

\* The closed-room scenario: the four walls, the observer in the middle, 360.
ClosedRoomCall ==
    /\ Returned
    /\ created = ClosedRoom
    /\ R.call.origin = Vec2(400, 300)
    /\ R.call.full_360

\* The returned points surround the observer: none is the observer itself and
\* the rays of consecutive points, around the circle, are less than pi apart.
Surrounded ==
    LET n == Len(R.rays)
    IN  /\ n >= 3
        /\ \A k \in 1..n : R.points[k] # R.call.origin
        /\ \A k \in 1..(n - 1) : R.rays[k + 1] - R.rays[k] < PI
        /\ R.rays[1] + TwoPI - R.rays[n] < PI

SameQuestion ==
    /\ Returned /\ snap # NoResult
    /\ The(snap).call = R.call
    /\ The(snap).segments = [i \in Walls |-> walls[i].segment]

=============================================================================
